---------------------------- MODULE Spec2Model ----------------------------
(***************************************************************************)
(* Track selection engine of FemtoUniverse                                 *)
(* (PWGCF/FemtoUniverse/Core/FemtoUniverseTrackSelection.h).               *)
(*                                                                         *)
(* Numbers.  The engine works on floats.  The model works on integers: a   *)
(* configured threshold, an offset and an observable of a track record are *)
(* integers, and those that enter a quadrature sum (dcaXY, dcaZ, the       *)
(* n-sigma values, the offsets) are even.  A square root that is not an    *)
(* integer is rounded to the odd integer between its two even neighbours   *)
(* (Sqrt), so that every comparison of a root with a threshold has the     *)
(* outcome it has on the reals.                                            *)
(*                                                                         *)
(* The base classes FemtoUniverseObjectSelection and FemtoUniverseSelection*)
(* (mSelections, getNSelections, getMinimalSelection, checkSelectionSetBit,*)
(* checkSelectionSetBitPID) are not part of the sources at hand; they are  *)
(* modelled from the specification (sections 3 and 4.1).                   *)
(***************************************************************************)
EXTENDS Integers, Sequences, FiniteSets, TLC

VARIABLES
  mSelections,                 \* registered criteria, in registration order
  kPIDspecies,                 \* species for which n-sigma is evaluated
  nRejectNotPropagatedTracks,  \* bool
  nSigmaPIDOffsetTPC,
  nSigmaPIDOffsetTOF,
  mHistogramRegistry,          \* NullRegistry or a registry
  counts,                      \* the members n...Sel
  limits,                      \* the members pTMin ... nSigmaPIDMax
  pc,                          \* "Unconfigured", "Configured", "Fatal"
  out,                         \* what the last evaluation call returned
  calls                        \* the evaluation calls in progress, per caller

vars == <<mSelections, kPIDspecies, nRejectNotPropagatedTracks,
          nSigmaPIDOffsetTPC, nSigmaPIDOffsetTOF, mHistogramRegistry,
          counts, limits, pc, out, calls>>

config == <<mSelections, kPIDspecies, nRejectNotPropagatedTracks,
            nSigmaPIDOffsetTPC, nSigmaPIDOffsetTOF, mHistogramRegistry,
            counts, limits>>

(***************************************************************************)
(* enum TrackSel                                                           *)
(***************************************************************************)
kSign == 0
kpTMin == 1
kpTMax == 2
kEtaMax == 3
kTPCnClsMin == 4
kTPCfClsMin == 5
kTPCcRowsMin == 6
kTPCsClsMax == 7
kTPCfracsClsMax == 8
kITSnClsMin == 9
kITSnClsIbMin == 10
kDCAxyMax == 11
kDCAzMax == 12
kDCAMin == 13
kPIDnSigmaMax == 14

kNtrackSelection == 15

TrackSel == 0 .. (kNtrackSelection - 1)

(***************************************************************************)
(* femto_universe_selection::SelectionType                                 *)
(***************************************************************************)
SelectionType ==
  {"kEqual", "kLowerLimit", "kUpperLimit", "kAbsLowerLimit", "kAbsUpperLimit"}

\* A value of the type SelectionType that is none of its enumerators: what
\* kSelectionTypes[iSel] holds for an iSel beyond the 15 entries of the table
NoEnumerator == "no enumerator"

\* The values a stored comparison kind can have
StoredKinds == SelectionType \cup {NoEnumerator}

\* Map to match a variable with its type, indexed by the enum value + 1.
kSelectionTypes ==
  << "kEqual",          \* kSign
     "kLowerLimit",     \* kpTMin
     "kUpperLimit",     \* kpTMax
     "kAbsUpperLimit",  \* kEtaMax
     "kLowerLimit",     \* kTPCnClsMin
     "kLowerLimit",     \* kTPCfClsMin
     "kLowerLimit",     \* kTPCcRowsMin
     "kUpperLimit",     \* kTPCsClsMax
     "kUpperLimit",     \* kTPCfracsClsMax
     "kLowerLimit",     \* kITSnClsMin
     "kLowerLimit",     \* kITSnClsIbMin
     "kAbsUpperLimit",  \* kDCAxyMax
     "kAbsUpperLimit",  \* kDCAzMax
     "kAbsUpperLimit",  \* kDCAMin
     "kAbsUpperLimit" >> \* kPIDnSigmaMax

getSelectionType(iSel) == kSelectionTypes[iSel + 1]

(***************************************************************************)
(* Arithmetic                                                              *)
(***************************************************************************)
Abs(x) == IF x < 0 THEN -x ELSE x

RECURSIVE Pow2(_)
Pow2(n) == IF n = 0 THEN 1 ELSE 2 * Pow2(n - 1)

RECURSIVE ISqrtIn(_, _, _)
\* the largest k in lo..hi with k*k <= n, given lo*lo <= n
ISqrtIn(n, lo, hi) ==
  IF lo >= hi THEN lo
  ELSE LET mid == (lo + hi + 1) \div 2
       IN IF mid * mid <= n THEN ISqrtIn(n, mid, hi) ELSE ISqrtIn(n, lo, mid - 1)

\* floor of the square root of n >= 0 (the search stops at 46000: 46000^2 < 2^31)
ISqrt(n) == ISqrtIn(n, 0, IF n < 46000 THEN n ELSE 46000)

\* std::sqrt of a sum n of squares of even numbers: the root when it is an
\* (even) integer, else the odd integer between its even neighbours.
Sqrt(n) ==
  LET m == n \div 4
      k == ISqrt(m)
  IN IF k * k = m THEN 2 * k ELSE 2 * k + 1

(***************************************************************************)
(* Generic selection framework (FemtoUniverseSelection,                    *)
(* FemtoUniverseObjectSelection), modelled from the specification.         *)
(***************************************************************************)
Max(S) == CHOOSE x \in S : \A y \in S : y <= x
Min(S) == CHOOSE x \in S : \A y \in S : x <= y

\* The pass/fail test of one criterion (specification 4.1, testAndSetBit).
isSelected(selType, selValue, observable) ==
  CASE selType = "kEqual"         -> observable = selValue
    [] selType = "kLowerLimit"    -> observable >= selValue
    [] selType = "kUpperLimit"    -> observable <= selValue
    [] selType = "kAbsLowerLimit" -> Abs(observable) >= selValue
    [] selType = "kAbsUpperLimit" -> Abs(observable) <= selValue
    [] OTHER                      -> FALSE

\* sizeof(CutContainerType), the template parameter of init and getCutContainer
sizeofCutContainerType == 1

ContainerBits == 8 * sizeofCutContainerType

Bit(container, i) == (container \div Pow2(i)) % 2

\* container |= 1 << i, in a container of ContainerBits bits
SetBit(container, i) ==
  IF i < ContainerBits /\ Bit(container, i) = 0
    THEN container + Pow2(i)
    ELSE container

\* On pass sets bit `counter` of the container; the counter moves on either way.
checkSelectionSetBit(sel, observable, container, counter) ==
  [container |-> IF isSelected(sel.selType, sel.selValue, observable)
                   THEN SetBit(container, counter)
                   ELSE container,
   counter   |-> counter + 1]

\* Appends one test result to a PID container.  The container is all the
\* callee is given, so the next free bit is bit 0: the result is written
\* there and the bits appended so far move up by one (container |= pass;
\* container <<= 1), which keeps bit 0 free for the next result.  A bit moved
\* past the width of the container is gone.
appendPIDBit(container, pass) ==
  ((IF pass THEN SetBit(container, 0) ELSE container) * 2) % Pow2(ContainerBits)

\* The same test as checkSelectionSetBit, its result appended to the PID
\* container.
checkSelectionSetBitPID(sel, observable, container) ==
  appendPIDBit(container, isSelected(sel.selType, sel.selValue, observable))

\* A criterion: comparison kind looked up from the static table.
Selection(selVar, selVal) ==
  [selVariable |-> selVar, selType |-> getSelectionType(selVar), selValue |-> selVal]

getNSelections == Len(mSelections)

getNSelectionsOf(selVar) ==
  Cardinality({i \in DOMAIN mSelections : mSelections[i].selVariable = selVar})

\* The constructor's placeholder of a threshold that no criterion has set.
kUnset == 9999999

\* The most open threshold among the registered criteria of selVar: the
\* lowest of the lower limits, the highest of the upper limits (specification
\* 3, "min of minima for lower-limit kinds, max of maxima for upper-limit
\* kinds"; the most open combination that isSelectedMinimal is documented to
\* check).  The search starts from the placeholder of the constructor.
getMinimalSelection(selVar, selType) ==
  LET vals == {mSelections[i].selValue :
                 i \in {j \in DOMAIN mSelections : mSelections[j].selVariable = selVar}}
      first == mSelections[CHOOSE i \in DOMAIN mSelections :
                 /\ mSelections[i].selVariable = selVar
                 /\ \A j \in 1 .. (i - 1) : mSelections[j].selVariable # selVar].selValue
  IN CASE selType \in {"kLowerLimit", "kAbsLowerLimit"} ->
            IF vals = {} THEN kUnset ELSE Min(vals)
       [] selType \in {"kUpperLimit", "kAbsUpperLimit"} ->
            IF vals = {} THEN -kUnset ELSE Max(vals)
       [] selType = "kEqual" ->
            IF vals = {} THEN kUnset ELSE first

(***************************************************************************)
(* Track records (the external input).  A record gives the observables the *)
(* engine reads; tpcNSigma and tofNSigma are indexed by species.           *)
(***************************************************************************)
Species == {"Pion", "Kaon"}

NullRegistry == "nullptr"
Registry == "qaRegistry"

\* A value the constructor leaves indeterminate (nTPCsFracMaxSel, nITSclsMin,
\* nITSclsIbMin have no initialiser); init writes it before any specification
\* below lets an evaluation read it.
Indeterminate == "indeterminate"

BaseTrack ==
  [sign |-> 1, pt |-> 6, eta |-> 6,
   tpcNClsFound |-> 6, tpcCrossedRowsOverFindableCls |-> 6,
   tpcNClsCrossedRows |-> 6, tpcNClsShared |-> 6, tpcFractionSharedCls |-> 6,
   itsNCls |-> 6, itsNClsInnerBarrel |-> 6,
   dcaXY |-> 6, dcaZ |-> 6,
   tpcNSigma |-> [s \in Species |-> 12],
   tofNSigma |-> [s \in Species |-> 12]]

(***************************************************************************)
(* FemtoUniverseTrackSelection                                             *)
(***************************************************************************)
\* The threads of the host that call the evaluation functions, and the
\* record of a thread that is in no call
Callers == {"A", "B"}

NoCall == [status |-> "idle"]

Init ==
  /\ mSelections = << >>
  /\ kPIDspecies = << >>
  /\ nRejectNotPropagatedTracks = FALSE
  /\ nSigmaPIDOffsetTPC = 0
  /\ nSigmaPIDOffsetTOF = 0
  /\ mHistogramRegistry = NullRegistry
  /\ counts = [nPtMinSel |-> 0, nPtMaxSel |-> 0, nEtaSel |-> 0,
               nTPCnMinSel |-> 0, nTPCfMinSel |-> 0, nTPCcMinSel |-> 0,
               nTPCsMaxSel |-> 0, nTPCsFracMaxSel |-> Indeterminate,
               nITScMinSel |-> 0, nITScIbMinSel |-> 0,
               nDCAxyMaxSel |-> 0, nDCAzMaxSel |-> 0, nDCAMinSel |-> 0,
               nPIDnSigmaSel |-> 0]
  /\ limits = [pTMin |-> kUnset, pTMax |-> -kUnset, etaMax |-> -kUnset,
               nClsMin |-> kUnset, fClsMin |-> kUnset, cTPCMin |-> kUnset,
               sTPCMax |-> -kUnset, fracsTPCMax |-> -kUnset,
               nITSclsMin |-> Indeterminate, nITSclsIbMin |-> Indeterminate,
               dcaXYMax |-> -kUnset, dcaZMax |-> -kUnset, dcaMin |-> kUnset,
               nSigmaPIDMax |-> kUnset]
  /\ pc = "Unconfigured"
  /\ out = [op |-> "none"]
  /\ calls = [c \in Callers |-> NoCall]

\* registerCriterion(variableKind, threshold)
registerCriterion(selVar, selVal) ==
  /\ pc # "Fatal"
  /\ mSelections' = Append(mSelections, Selection(selVar, selVal))
  /\ UNCHANGED <<kPIDspecies, nRejectNotPropagatedTracks, nSigmaPIDOffsetTPC,
                 nSigmaPIDOffsetTOF, mHistogramRegistry, counts, limits, pc, out, calls>>

\* setSelection(selVal, selVar, selType) of the base class, for a variable
\* that is not one of the TrackSel enumerators (an integer cast to the enum
\* type): the criterion stores the kind the caller hands over.  The caller
\* either names the kind itself or looks it up with getSelectionType(selVar),
\* which reads kSelectionTypes beyond its end and hands over whatever is
\* stored there (in the builds at hand a value that is no enumerator).
setSelection(selVal, selVar, selType) ==
  /\ pc # "Fatal"
  /\ selVar \notin TrackSel
  /\ selType \in StoredKinds
  /\ mSelections' = Append(mSelections,
                           [selVariable |-> selVar, selType |-> selType,
                            selValue |-> selVal])
  /\ UNCHANGED <<kPIDspecies, nRejectNotPropagatedTracks, nSigmaPIDOffsetTPC,
                 nSigmaPIDOffsetTOF, mHistogramRegistry, counts, limits, pc, out, calls>>

setPIDSpecies(pids) ==
  /\ pc # "Fatal"
  /\ kPIDspecies' = kPIDspecies \o pids
  /\ UNCHANGED <<mSelections, nRejectNotPropagatedTracks, nSigmaPIDOffsetTPC,
                 nSigmaPIDOffsetTOF, mHistogramRegistry, counts, limits, pc, out, calls>>

setRejectNotPropagatedTracks(reject) ==
  /\ pc # "Fatal"
  /\ nRejectNotPropagatedTracks' = reject
  /\ UNCHANGED <<mSelections, kPIDspecies, nSigmaPIDOffsetTPC,
                 nSigmaPIDOffsetTOF, mHistogramRegistry, counts, limits, pc, out, calls>>

setnSigmaPIDOffset(offsetTPC, offsetTOF) ==
  /\ pc # "Fatal"
  /\ nSigmaPIDOffsetTPC' = offsetTPC
  /\ nSigmaPIDOffsetTOF' = offsetTOF
  /\ UNCHANGED <<mSelections, kPIDspecies, nRejectNotPropagatedTracks,
                 mHistogramRegistry, counts, limits, pc, out, calls>>

\* "check whether the number of selection exceeds the bitmap size": the check
\* is made inside if (registry).
tooManySelections(registry) ==
  /\ registry # NullRegistry
  /\ getNSelections - getNSelectionsOf(kPIDnSigmaMax) > 8 * sizeofCutContainerType

\* "set cuts", first half: the counts
initCounts ==
  [nPtMinSel       |-> getNSelectionsOf(kpTMin),
   nPtMaxSel       |-> getNSelectionsOf(kpTMax),
   nEtaSel         |-> getNSelectionsOf(kEtaMax),
   nTPCnMinSel     |-> getNSelectionsOf(kTPCnClsMin),
   nTPCfMinSel     |-> getNSelectionsOf(kTPCfClsMin),
   nTPCcMinSel     |-> getNSelectionsOf(kTPCcRowsMin),
   nTPCsMaxSel     |-> getNSelectionsOf(kTPCsClsMax),
   nTPCsFracMaxSel |-> getNSelectionsOf(kTPCfracsClsMax),
   nITScMinSel     |-> getNSelectionsOf(kITSnClsMin),
   nITScIbMinSel   |-> getNSelectionsOf(kITSnClsIbMin),
   nDCAxyMaxSel    |-> getNSelectionsOf(kDCAxyMax),
   nDCAzMaxSel     |-> getNSelectionsOf(kDCAzMax),
   nDCAMinSel      |-> getNSelectionsOf(kDCAMin),
   nPIDnSigmaSel   |-> getNSelectionsOf(kPIDnSigmaMax)]

\* A faulty variant of initLimits: pTMin collapsed as an upper limit.
initLimitsPtMinAsUpper ==
  [pTMin        |-> getMinimalSelection(kpTMin, "kUpperLimit"),
   pTMax        |-> getMinimalSelection(kpTMax, "kUpperLimit"),
   etaMax       |-> getMinimalSelection(kEtaMax, "kAbsUpperLimit"),
   nClsMin      |-> getMinimalSelection(kTPCnClsMin, "kLowerLimit"),
   fClsMin      |-> getMinimalSelection(kTPCfClsMin, "kLowerLimit"),
   cTPCMin      |-> getMinimalSelection(kTPCcRowsMin, "kLowerLimit"),
   sTPCMax      |-> getMinimalSelection(kTPCsClsMax, "kUpperLimit"),
   fracsTPCMax  |-> getMinimalSelection(kTPCfracsClsMax, "kUpperLimit"),
   nITSclsMin   |-> getMinimalSelection(kITSnClsMin, "kLowerLimit"),
   nITSclsIbMin |-> getMinimalSelection(kITSnClsIbMin, "kLowerLimit"),
   dcaXYMax     |-> getMinimalSelection(kDCAxyMax, "kAbsUpperLimit"),
   dcaZMax      |-> getMinimalSelection(kDCAzMax, "kAbsUpperLimit"),
   dcaMin       |-> getMinimalSelection(kDCAMin, "kAbsLowerLimit"),
   nSigmaPIDMax |-> getMinimalSelection(kPIDnSigmaMax, "kAbsUpperLimit")]

\* A faulty variant of initLimits: pTMax collapsed as a lower limit.
initLimitsPtMaxAsLower ==
  [pTMin        |-> getMinimalSelection(kpTMin, "kLowerLimit"),
   pTMax        |-> getMinimalSelection(kpTMax, "kLowerLimit"),
   etaMax       |-> getMinimalSelection(kEtaMax, "kAbsUpperLimit"),
   nClsMin      |-> getMinimalSelection(kTPCnClsMin, "kLowerLimit"),
   fClsMin      |-> getMinimalSelection(kTPCfClsMin, "kLowerLimit"),
   cTPCMin      |-> getMinimalSelection(kTPCcRowsMin, "kLowerLimit"),
   sTPCMax      |-> getMinimalSelection(kTPCsClsMax, "kUpperLimit"),
   fracsTPCMax  |-> getMinimalSelection(kTPCfracsClsMax, "kUpperLimit"),
   nITSclsMin   |-> getMinimalSelection(kITSnClsMin, "kLowerLimit"),
   nITSclsIbMin |-> getMinimalSelection(kITSnClsIbMin, "kLowerLimit"),
   dcaXYMax     |-> getMinimalSelection(kDCAxyMax, "kAbsUpperLimit"),
   dcaZMax      |-> getMinimalSelection(kDCAzMax, "kAbsUpperLimit"),
   dcaMin       |-> getMinimalSelection(kDCAMin, "kAbsLowerLimit"),
   nSigmaPIDMax |-> getMinimalSelection(kPIDnSigmaMax, "kAbsUpperLimit")]

\* "set cuts", second half: the collapsed thresholds
initLimits ==
  [pTMin        |-> getMinimalSelection(kpTMin, "kLowerLimit"),
   pTMax        |-> getMinimalSelection(kpTMax, "kUpperLimit"),
   etaMax       |-> getMinimalSelection(kEtaMax, "kAbsUpperLimit"),
   nClsMin      |-> getMinimalSelection(kTPCnClsMin, "kLowerLimit"),
   fClsMin      |-> getMinimalSelection(kTPCfClsMin, "kLowerLimit"),
   cTPCMin      |-> getMinimalSelection(kTPCcRowsMin, "kLowerLimit"),
   sTPCMax      |-> getMinimalSelection(kTPCsClsMax, "kUpperLimit"),
   fracsTPCMax  |-> getMinimalSelection(kTPCfracsClsMax, "kUpperLimit"),
   nITSclsMin   |-> getMinimalSelection(kITSnClsMin, "kLowerLimit"),
   nITSclsIbMin |-> getMinimalSelection(kITSnClsIbMin, "kLowerLimit"),
   dcaXYMax     |-> getMinimalSelection(kDCAxyMax, "kAbsUpperLimit"),
   dcaZMax      |-> getMinimalSelection(kDCAzMax, "kAbsUpperLimit"),
   dcaMin       |-> getMinimalSelection(kDCAMin, "kAbsLowerLimit"),
   nSigmaPIDMax |-> getMinimalSelection(kPIDnSigmaMax, "kAbsUpperLimit")]

\* init<part, tracktype, CutContainerType>(registry).  LOG(fatal) ends the
\* process: nothing runs after it.
init(registry) ==
  /\ pc # "Fatal"
  /\ mHistogramRegistry' =
       IF registry # NullRegistry THEN registry ELSE mHistogramRegistry
  /\ IF tooManySelections(registry)
       THEN /\ pc' = "Fatal"
            /\ UNCHANGED <<counts, limits>>
       ELSE /\ pc' = "Configured"
            /\ counts' = initCounts
            /\ limits' = initLimits
  /\ UNCHANGED <<mSelections, kPIDspecies, nRejectNotPropagatedTracks,
                 nSigmaPIDOffsetTPC, nSigmaPIDOffsetTOF, out, calls>>

\* The sentinel of a track that was not propagated to the vertex (1e3).
kNotPropagatedDCA == 1000

\* A faulty variant of isFulfilledPID: fulfilled when no species is configured.
isFulfilledPIDOrNoSpecies(track) ==
  \/ kPIDspecies = << >>
  \/ \E i \in DOMAIN kPIDspecies :
       Abs(track.tpcNSigma[kPIDspecies[i]] - nSigmaPIDOffsetTPC) < limits.nSigmaPIDMax

\* The PID part of isSelectedMinimal: some configured species lies inside.
isFulfilledPID(track) ==
  \E i \in DOMAIN kPIDspecies :
    Abs(track.tpcNSigma[kPIDspecies[i]] - nSigmaPIDOffsetTPC) < limits.nSigmaPIDMax

\* A faulty variant of isSelectedMinimal: the not-propagated sentinel tested
\* without std::abs.
isSelectedMinimalSignedSentinel(track) ==
  LET dca == track.dcaXY
  IN
  IF counts.nPtMinSel > 0 /\ track.pt < limits.pTMin THEN FALSE
  ELSE IF counts.nPtMaxSel > 0 /\ track.pt > limits.pTMax THEN FALSE
  ELSE IF counts.nEtaSel > 0 /\ Abs(track.eta) > limits.etaMax THEN FALSE
  ELSE IF counts.nTPCnMinSel > 0 /\ track.tpcNClsFound < limits.nClsMin THEN FALSE
  ELSE IF counts.nTPCfMinSel > 0
          /\ track.tpcCrossedRowsOverFindableCls < limits.fClsMin THEN FALSE
  ELSE IF counts.nTPCcMinSel > 0 /\ track.tpcNClsCrossedRows < limits.cTPCMin THEN FALSE
  ELSE IF counts.nTPCsMaxSel > 0 /\ track.tpcNClsShared > limits.sTPCMax THEN FALSE
  ELSE IF counts.nTPCsFracMaxSel > 0
          /\ track.tpcFractionSharedCls > limits.fracsTPCMax THEN FALSE
  ELSE IF counts.nITScMinSel > 0 /\ track.itsNCls < limits.nITSclsMin THEN FALSE
  ELSE IF counts.nITScIbMinSel > 0
          /\ track.itsNClsInnerBarrel < limits.nITSclsIbMin THEN FALSE
  ELSE IF counts.nDCAxyMaxSel > 0 /\ Abs(track.dcaXY) > limits.dcaXYMax THEN FALSE
  ELSE IF counts.nDCAzMaxSel > 0 /\ Abs(track.dcaZ) > limits.dcaZMax THEN FALSE
  ELSE IF counts.nDCAMinSel > 0 /\ Abs(dca) < limits.dcaMin THEN FALSE
  ELSE IF nRejectNotPropagatedTracks /\ dca > kNotPropagatedDCA THEN FALSE
  ELSE IF counts.nPIDnSigmaSel > 0 /\ ~isFulfilledPID(track) THEN FALSE
  ELSE TRUE

\* A faulty variant of isSelectedMinimal: the sign is tested too.
isSelectedMinimalWithSign(track) ==
  LET dca == track.dcaXY
  IN
  IF getNSelectionsOf(kSign) > 0
     /\ track.sign # getMinimalSelection(kSign, "kEqual") THEN FALSE
  ELSE IF counts.nPtMinSel > 0 /\ track.pt < limits.pTMin THEN FALSE
  ELSE IF counts.nPtMaxSel > 0 /\ track.pt > limits.pTMax THEN FALSE
  ELSE IF counts.nEtaSel > 0 /\ Abs(track.eta) > limits.etaMax THEN FALSE
  ELSE IF counts.nTPCnMinSel > 0 /\ track.tpcNClsFound < limits.nClsMin THEN FALSE
  ELSE IF counts.nTPCfMinSel > 0
          /\ track.tpcCrossedRowsOverFindableCls < limits.fClsMin THEN FALSE
  ELSE IF counts.nTPCcMinSel > 0 /\ track.tpcNClsCrossedRows < limits.cTPCMin THEN FALSE
  ELSE IF counts.nTPCsMaxSel > 0 /\ track.tpcNClsShared > limits.sTPCMax THEN FALSE
  ELSE IF counts.nTPCsFracMaxSel > 0
          /\ track.tpcFractionSharedCls > limits.fracsTPCMax THEN FALSE
  ELSE IF counts.nITScMinSel > 0 /\ track.itsNCls < limits.nITSclsMin THEN FALSE
  ELSE IF counts.nITScIbMinSel > 0
          /\ track.itsNClsInnerBarrel < limits.nITSclsIbMin THEN FALSE
  ELSE IF counts.nDCAxyMaxSel > 0 /\ Abs(track.dcaXY) > limits.dcaXYMax THEN FALSE
  ELSE IF counts.nDCAzMaxSel > 0 /\ Abs(track.dcaZ) > limits.dcaZMax THEN FALSE
  ELSE IF counts.nDCAMinSel > 0 /\ Abs(dca) < limits.dcaMin THEN FALSE
  ELSE IF nRejectNotPropagatedTracks /\ Abs(dca) > kNotPropagatedDCA THEN FALSE
  ELSE IF counts.nPIDnSigmaSel > 0 /\ ~isFulfilledPID(track) THEN FALSE
  ELSE TRUE

\* A faulty variant of isSelectedMinimal: eta tested without std::abs.
isSelectedMinimalSignedEta(track) ==
  LET dca == track.dcaXY
  IN
  IF counts.nPtMinSel > 0 /\ track.pt < limits.pTMin THEN FALSE
  ELSE IF counts.nPtMaxSel > 0 /\ track.pt > limits.pTMax THEN FALSE
  ELSE IF counts.nEtaSel > 0 /\ track.eta > limits.etaMax THEN FALSE
  ELSE IF counts.nTPCnMinSel > 0 /\ track.tpcNClsFound < limits.nClsMin THEN FALSE
  ELSE IF counts.nTPCfMinSel > 0
          /\ track.tpcCrossedRowsOverFindableCls < limits.fClsMin THEN FALSE
  ELSE IF counts.nTPCcMinSel > 0 /\ track.tpcNClsCrossedRows < limits.cTPCMin THEN FALSE
  ELSE IF counts.nTPCsMaxSel > 0 /\ track.tpcNClsShared > limits.sTPCMax THEN FALSE
  ELSE IF counts.nTPCsFracMaxSel > 0
          /\ track.tpcFractionSharedCls > limits.fracsTPCMax THEN FALSE
  ELSE IF counts.nITScMinSel > 0 /\ track.itsNCls < limits.nITSclsMin THEN FALSE
  ELSE IF counts.nITScIbMinSel > 0
          /\ track.itsNClsInnerBarrel < limits.nITSclsIbMin THEN FALSE
  ELSE IF counts.nDCAxyMaxSel > 0 /\ Abs(track.dcaXY) > limits.dcaXYMax THEN FALSE
  ELSE IF counts.nDCAzMaxSel > 0 /\ Abs(track.dcaZ) > limits.dcaZMax THEN FALSE
  ELSE IF counts.nDCAMinSel > 0 /\ Abs(dca) < limits.dcaMin THEN FALSE
  ELSE IF nRejectNotPropagatedTracks /\ Abs(dca) > kNotPropagatedDCA THEN FALSE
  ELSE IF counts.nPIDnSigmaSel > 0 /\ ~isFulfilledPID(track) THEN FALSE
  ELSE TRUE

isSelectedMinimal(track) ==
  LET pT == track.pt
      eta == track.eta
      tpcNClsF == track.tpcNClsFound
      tpcRClsC == track.tpcCrossedRowsOverFindableCls
      tpcNClsC == track.tpcNClsCrossedRows
      tpcNClsS == track.tpcNClsShared
      tpcNClsFracS == track.tpcFractionSharedCls
      itsNCls == track.itsNCls
      itsNClsIB == track.itsNClsInnerBarrel
      dcaXY == track.dcaXY
      dcaZ == track.dcaZ
      dca == track.dcaXY   \* only dcaXY, NOT sqrt(dcaXY^2 + dcaZ^2)
  IN
  IF counts.nPtMinSel > 0 /\ pT < limits.pTMin THEN FALSE
  ELSE IF counts.nPtMaxSel > 0 /\ pT > limits.pTMax THEN FALSE
  ELSE IF counts.nEtaSel > 0 /\ Abs(eta) > limits.etaMax THEN FALSE
  ELSE IF counts.nTPCnMinSel > 0 /\ tpcNClsF < limits.nClsMin THEN FALSE
  ELSE IF counts.nTPCfMinSel > 0 /\ tpcRClsC < limits.fClsMin THEN FALSE
  ELSE IF counts.nTPCcMinSel > 0 /\ tpcNClsC < limits.cTPCMin THEN FALSE
  ELSE IF counts.nTPCsMaxSel > 0 /\ tpcNClsS > limits.sTPCMax THEN FALSE
  ELSE IF counts.nTPCsFracMaxSel > 0 /\ tpcNClsFracS > limits.fracsTPCMax THEN FALSE
  ELSE IF counts.nITScMinSel > 0 /\ itsNCls < limits.nITSclsMin THEN FALSE
  ELSE IF counts.nITScIbMinSel > 0 /\ itsNClsIB < limits.nITSclsIbMin THEN FALSE
  ELSE IF counts.nDCAxyMaxSel > 0 /\ Abs(dcaXY) > limits.dcaXYMax THEN FALSE
  ELSE IF counts.nDCAzMaxSel > 0 /\ Abs(dcaZ) > limits.dcaZMax THEN FALSE
  ELSE IF counts.nDCAMinSel > 0 /\ Abs(dca) < limits.dcaMin THEN FALSE
  ELSE IF nRejectNotPropagatedTracks /\ Abs(dca) > kNotPropagatedDCA THEN FALSE
  ELSE IF counts.nPIDnSigmaSel > 0 /\ ~isFulfilledPID(track) THEN FALSE
  ELSE TRUE

\* A faulty variant of observableOf: kDCAMin reads dcaXY alone.
observableOfDcaXYOnly(track, selVariable, observable) ==
  CASE selVariable = kSign -> track.sign
    [] selVariable = kpTMin -> track.pt
    [] selVariable = kpTMax -> track.pt
    [] selVariable = kEtaMax -> track.eta
    [] selVariable = kTPCnClsMin -> track.tpcNClsFound
    [] selVariable = kTPCfClsMin -> track.tpcCrossedRowsOverFindableCls
    [] selVariable = kTPCcRowsMin -> track.tpcNClsCrossedRows
    [] selVariable = kTPCsClsMax -> track.tpcNClsShared
    [] selVariable = kTPCfracsClsMax -> track.tpcFractionSharedCls
    [] selVariable = kITSnClsMin -> track.itsNCls
    [] selVariable = kITSnClsIbMin -> track.itsNClsInnerBarrel
    [] selVariable = kDCAxyMax -> track.dcaXY
    [] selVariable = kDCAzMax -> track.dcaZ
    [] selVariable = kDCAMin -> track.dcaXY
    [] OTHER -> observable

\* The switch of getCutContainer: the observable of a variable.  The local
\* `observable` is declared before the loop, so it keeps the previous
\* criterion's value when no case assigns it.
observableOf(track, selVariable, observable) ==
  CASE selVariable = kSign -> track.sign
    [] selVariable = kpTMin -> track.pt
    [] selVariable = kpTMax -> track.pt
    [] selVariable = kEtaMax -> track.eta
    [] selVariable = kTPCnClsMin -> track.tpcNClsFound
    [] selVariable = kTPCfClsMin -> track.tpcCrossedRowsOverFindableCls
    [] selVariable = kTPCcRowsMin -> track.tpcNClsCrossedRows
    [] selVariable = kTPCsClsMax -> track.tpcNClsShared
    [] selVariable = kTPCfracsClsMax -> track.tpcFractionSharedCls
    [] selVariable = kITSnClsMin -> track.itsNCls
    [] selVariable = kITSnClsIbMin -> track.itsNClsInnerBarrel
    [] selVariable = kDCAxyMax -> track.dcaXY
    [] selVariable = kDCAzMax -> track.dcaZ
    [] selVariable = kDCAMin ->
         Sqrt(track.dcaXY * track.dcaXY + track.dcaZ * track.dcaZ)
    [] OTHER -> observable

RECURSIVE pidLoopCombinedOfTOF(_, _, _, _)
\* A faulty variant of pidLoop: the combined value leaves the TPC term out.
pidLoopCombinedOfTOF(track, sel, i, outputPID) ==
  IF i > Len(kPIDspecies) THEN outputPID
  ELSE LET pidTPCVal == track.tpcNSigma[kPIDspecies[i]] - nSigmaPIDOffsetTPC
           pidTOFVal == track.tofNSigma[kPIDspecies[i]] - nSigmaPIDOffsetTOF
           pidComb == Sqrt(pidTOFVal * pidTOFVal)
       IN pidLoopCombinedOfTOF(track, sel, i + 1,
                  checkSelectionSetBitPID(sel, pidComb,
                    checkSelectionSetBitPID(sel, pidTPCVal, outputPID)))

RECURSIVE pidLoopCombinedFirst(_, _, _, _)
\* A faulty variant of pidLoop: the combined value is tested before the
\* TPC-only value.
pidLoopCombinedFirst(track, sel, i, outputPID) ==
  IF i > Len(kPIDspecies) THEN outputPID
  ELSE LET pidTPCVal == track.tpcNSigma[kPIDspecies[i]] - nSigmaPIDOffsetTPC
           pidTOFVal == track.tofNSigma[kPIDspecies[i]] - nSigmaPIDOffsetTOF
           pidComb == Sqrt(pidTPCVal * pidTPCVal + pidTOFVal * pidTOFVal)
       IN pidLoopCombinedFirst(track, sel, i + 1,
                  checkSelectionSetBitPID(sel, pidTPCVal,
                    checkSelectionSetBitPID(sel, pidComb, outputPID)))

RECURSIVE pidLoop(_, _, _, _)
\* for (i = 0; i < kPIDspecies.size(); ++i): two PID bits per species
pidLoop(track, sel, i, outputPID) ==
  IF i > Len(kPIDspecies) THEN outputPID
  ELSE LET pidTPCVal == track.tpcNSigma[kPIDspecies[i]] - nSigmaPIDOffsetTPC
           pidTOFVal == track.tofNSigma[kPIDspecies[i]] - nSigmaPIDOffsetTOF
           pidComb == Sqrt(pidTPCVal * pidTPCVal + pidTOFVal * pidTOFVal)
       IN pidLoop(track, sel, i + 1,
                  checkSelectionSetBitPID(sel, pidComb,
                    checkSelectionSetBitPID(sel, pidTPCVal, outputPID)))

\* A faulty variant of selStep: the criterion is tested on |observable|.
selStepOnAbsolute(track, sel, loc) ==
  IF sel.selVariable = kPIDnSigmaMax
    THEN [loc EXCEPT !.outputPID = pidLoop(track, sel, 1, loc.outputPID)]
    ELSE LET observable == observableOf(track, sel.selVariable, loc.observable)
             set == checkSelectionSetBit(sel, Abs(observable), loc.output, loc.counter)
         IN [loc EXCEPT !.observable = observable,
                        !.output = set.container,
                        !.counter = set.counter]

\* A faulty variant of selStep: a PID criterion takes an ordinary bit place.
selStepPIDTakesPlace(track, sel, loc) ==
  IF sel.selVariable = kPIDnSigmaMax
    THEN [loc EXCEPT !.outputPID = pidLoop(track, sel, 1, loc.outputPID),
                     !.counter = loc.counter + 1]
    ELSE LET observable == observableOf(track, sel.selVariable, loc.observable)
             set == checkSelectionSetBit(sel, observable, loc.output, loc.counter)
         IN [loc EXCEPT !.observable = observable,
                        !.output = set.container,
                        !.counter = set.counter]

\* One iteration of for (auto& sel : mSelections) on the locals
\* output, counter, outputPID and observable.
selStep(track, sel, loc) ==
  IF sel.selVariable = kPIDnSigmaMax
    THEN [loc EXCEPT !.outputPID = pidLoop(track, sel, 1, loc.outputPID)]
    ELSE LET observable == observableOf(track, sel.selVariable, loc.observable)
             set == checkSelectionSetBit(sel, observable, loc.output, loc.counter)
         IN [loc EXCEPT !.observable = observable,
                        !.output = set.container,
                        !.counter = set.counter]

RECURSIVE selLoop(_, _, _)
selLoop(track, i, loc) ==
  IF i > Len(mSelections) THEN loc
  ELSE selLoop(track, i + 1, selStep(track, mSelections[i], loc))

\* getCutContainer<CutContainerType>(track): {output, outputPID}
getCutContainer(track) ==
  LET loc == selLoop(track, 1,
                     [output |-> 0, counter |-> 0,
                      outputPID |-> 0, observable |-> 0])
  IN <<loc.output, loc.outputPID>>

(***************************************************************************)
(* The tables of track records the host evaluates                          *)
(***************************************************************************)
OrdinaryFields ==
  <<"pt", "eta", "tpcNClsFound", "tpcCrossedRowsOverFindableCls",
    "tpcNClsCrossedRows", "tpcNClsShared", "tpcFractionSharedCls",
    "itsNCls", "itsNClsInnerBarrel", "dcaXY", "dcaZ">>

SignedFields == <<"eta", "dcaXY", "dcaZ">>

\* BaseTrack with one observable changed, for every field and every value
DevTracks(fields, values) ==
  [k \in 1 .. (Len(fields) * Len(values)) |->
     [BaseTrack EXCEPT ![fields[((k - 1) \div Len(values)) + 1]] =
                         values[((k - 1) % Len(values)) + 1]]]

PIDTrack(tpcPion, tpcKaon, tof) ==
  [BaseTrack EXCEPT
     !.tpcNSigma = [s \in Species |-> IF s = "Pion" THEN tpcPion ELSE tpcKaon],
     !.tofNSigma = [s \in Species |-> tof]]

TrackTable ==
  <<BaseTrack>>
  \o DevTracks(OrdinaryFields, <<2, 4, 10, 12>>)
  \o DevTracks(SignedFields, <<-4, -10, -12>>)
  \o << [BaseTrack EXCEPT !.sign = -1],
        [BaseTrack EXCEPT !.dcaZ = 8],
        [BaseTrack EXCEPT !.dcaXY = 2, !.dcaZ = 4],
        [BaseTrack EXCEPT !.dcaXY = 1000],
        [BaseTrack EXCEPT !.dcaXY = 2000],
        [BaseTrack EXCEPT !.dcaXY = -2000],
        PIDTrack(2, 12, 12), PIDTrack(4, 12, 12), PIDTrack(-4, 12, 0),
        PIDTrack(12, 10, 12), PIDTrack(12, -10, 0), PIDTrack(12, 8, 0),
        PIDTrack(2, 2, 0) >>

\* Tracks that differ in their n-sigma values only
PIDTrackTable ==
  [k \in 1 .. 36 |->
     PIDTrack(<<-10, -4, 4, 6, 10, 12>>[((k - 1) \div 6) + 1],
              <<12, 4, -10>>[(((k - 1) \div 2) % 3) + 1],
              <<0, 12>>[((k - 1) % 2) + 1])]

Table(tab) ==
  CASE tab = "TrackTable" -> TrackTable
    [] tab = "PIDTrackTable" -> PIDTrackTable

\* The host calls isSelectedMinimal(track) for every track of a table.
evalIsSelectedMinimal(tab) ==
  /\ pc # "Fatal"
  /\ out' = [op |-> "isSelectedMinimal", table |-> tab,
             result |-> [i \in DOMAIN Table(tab) |-> isSelectedMinimal(Table(tab)[i])]]
  /\ UNCHANGED <<mSelections, kPIDspecies, nRejectNotPropagatedTracks,
                 nSigmaPIDOffsetTPC, nSigmaPIDOffsetTOF, mHistogramRegistry,
                 counts, limits, pc, calls>>

\* The host calls getCutContainer(track) for every track of a table.
evalGetCutContainer(tab) ==
  /\ pc # "Fatal"
  /\ out' = [op |-> "getCutContainer", table |-> tab,
             result |-> [i \in DOMAIN Table(tab) |-> getCutContainer(Table(tab)[i])]]
  /\ UNCHANGED <<mSelections, kPIDspecies, nRejectNotPropagatedTracks,
                 nSigmaPIDOffsetTPC, nSigmaPIDOffsetTOF, mHistogramRegistry,
                 counts, limits, pc, calls>>

\* fillQA<part, tracktype>(track): the entries filled into the histograms of
\* the registry (those of the observables a track record carries here), or
\* none without a registry.
fillQA(track) ==
  IF mHistogramRegistry # NullRegistry
    THEN [hPt |-> track.pt,
          hEta |-> track.eta,
          hTPCfound |-> track.tpcNClsFound,
          hTPCcrossedOverFindalbe |-> track.tpcCrossedRowsOverFindableCls,
          hTPCcrossedRows |-> track.tpcNClsCrossedRows,
          hTPCshared |-> track.tpcNClsShared,
          hTPCfractionSharedCls |-> track.tpcFractionSharedCls,
          hITSclusters |-> track.itsNCls,
          hITSclustersIB |-> track.itsNClsInnerBarrel,
          hDCAxy |-> <<track.pt, track.dcaXY>>,
          hDCAz |-> <<track.pt, track.dcaZ>>,
          hDCA |-> <<track.pt,
                     Sqrt(track.dcaXY * track.dcaXY + track.dcaZ * track.dcaZ)>>,
          nSigmaTPC |-> track.tpcNSigma,
          nSigmaTOF |-> track.tofNSigma,
          nSigmaComb |-> [pid \in Species |->
                           Sqrt(track.tpcNSigma[pid] * track.tpcNSigma[pid]
                                + track.tofNSigma[pid] * track.tofNSigma[pid])]]
    ELSE [hPt |-> "not filled"]

(***************************************************************************)
(* Evaluation calls of several threads of the host on one engine.  A call  *)
(* is the track it was given, its position in the function and its locals; *)
(* the threads take their steps in any order.  A step of getCutContainer   *)
(* is one iteration of the loop over mSelections, a step of                *)
(* isSelectedMinimal is one of its fifteen checks, fillQA is one step.     *)
(***************************************************************************)
\* The track records the threads evaluate, each thread its own
CallerTracks ==
  [A |-> <<BaseTrack, [BaseTrack EXCEPT !.pt = 2]>>,
   B |-> <<[BaseTrack EXCEPT !.eta = 12], PIDTrack(4, 12, 0)>>]

\* The k-th check of isSelectedMinimal (k = 1 .. 15) rejects the track
rejectsAt(track, k) ==
  LET dca == track.dcaXY
  IN CASE k = 1 -> counts.nPtMinSel > 0 /\ track.pt < limits.pTMin
       [] k = 2 -> counts.nPtMaxSel > 0 /\ track.pt > limits.pTMax
       [] k = 3 -> counts.nEtaSel > 0 /\ Abs(track.eta) > limits.etaMax
       [] k = 4 -> counts.nTPCnMinSel > 0 /\ track.tpcNClsFound < limits.nClsMin
       [] k = 5 -> counts.nTPCfMinSel > 0
                   /\ track.tpcCrossedRowsOverFindableCls < limits.fClsMin
       [] k = 6 -> counts.nTPCcMinSel > 0 /\ track.tpcNClsCrossedRows < limits.cTPCMin
       [] k = 7 -> counts.nTPCsMaxSel > 0 /\ track.tpcNClsShared > limits.sTPCMax
       [] k = 8 -> counts.nTPCsFracMaxSel > 0
                   /\ track.tpcFractionSharedCls > limits.fracsTPCMax
       [] k = 9 -> counts.nITScMinSel > 0 /\ track.itsNCls < limits.nITSclsMin
       [] k = 10 -> counts.nITScIbMinSel > 0
                    /\ track.itsNClsInnerBarrel < limits.nITSclsIbMin
       [] k = 11 -> counts.nDCAxyMaxSel > 0 /\ Abs(track.dcaXY) > limits.dcaXYMax
       [] k = 12 -> counts.nDCAzMaxSel > 0 /\ Abs(track.dcaZ) > limits.dcaZMax
       [] k = 13 -> counts.nDCAMinSel > 0 /\ Abs(dca) < limits.dcaMin
       [] k = 14 -> nRejectNotPropagatedTracks /\ Abs(dca) > kNotPropagatedDCA
       [] k = 15 -> counts.nPIDnSigmaSel > 0 /\ ~isFulfilledPID(track)

\* Thread c enters isSelectedMinimal, getCutContainer or fillQA with one of
\* its tracks; the locals of getCutContainer start as declared there.
enterCall(c, fn, track) ==
  /\ pc # "Fatal"
  /\ calls[c].status # "running"
  /\ calls' = [calls EXCEPT ![c] =
                 [status |-> "running", fn |-> fn, track |-> track, at |-> 1,
                  loc |-> [output |-> 0, counter |-> 0, outputPID |-> 0,
                           observable |-> 0]]]
  /\ UNCHANGED <<mSelections, kPIDspecies, nRejectNotPropagatedTracks,
                 nSigmaPIDOffsetTPC, nSigmaPIDOffsetTOF, mHistogramRegistry,
                 counts, limits, pc, out>>

\* A faulty variant of stepGetCutContainer: output, counter, outputPID and
\* observable are one copy that all the calls in progress write.
stepGetCutContainerSharedLocals(c) ==
  /\ pc # "Fatal"
  /\ calls[c].status = "running" /\ calls[c].fn = "getCutContainer"
  /\ LET call == calls[c]
         loc == IF call.at <= Len(mSelections)
                  THEN selStep(call.track, mSelections[call.at], call.loc)
                  ELSE call.loc
     IN calls' = [d \in Callers |->
                   IF d = c
                     THEN IF call.at <= Len(mSelections)
                            THEN [call EXCEPT !.at = call.at + 1, !.loc = loc]
                            ELSE [status |-> "returned", fn |-> call.fn,
                                  track |-> call.track,
                                  ret |-> <<call.loc.output, call.loc.outputPID>>]
                     ELSE IF calls[d].status = "running"
                               /\ calls[d].fn = "getCutContainer"
                            THEN [calls[d] EXCEPT !.loc = loc]
                            ELSE calls[d]]
  /\ UNCHANGED <<mSelections, kPIDspecies, nRejectNotPropagatedTracks,
                 nSigmaPIDOffsetTPC, nSigmaPIDOffsetTOF, mHistogramRegistry,
                 counts, limits, pc, out>>

\* The next step of the getCutContainer call of thread c: one iteration of
\* the loop on the locals of this call, or, after the last, the return of
\* {output, outputPID}.
stepGetCutContainer(c) ==
  /\ pc # "Fatal"
  /\ calls[c].status = "running" /\ calls[c].fn = "getCutContainer"
  /\ LET call == calls[c]
     IN calls' = [calls EXCEPT ![c] =
                   IF call.at <= Len(mSelections)
                     THEN [call EXCEPT
                             !.at = call.at + 1,
                             !.loc = selStep(call.track, mSelections[call.at], call.loc)]
                     ELSE [status |-> "returned", fn |-> call.fn,
                           track |-> call.track,
                           ret |-> <<call.loc.output, call.loc.outputPID>>]]
  /\ UNCHANGED <<mSelections, kPIDspecies, nRejectNotPropagatedTracks,
                 nSigmaPIDOffsetTPC, nSigmaPIDOffsetTOF, mHistogramRegistry,
                 counts, limits, pc, out>>

\* The next step of the isSelectedMinimal call of thread c: one check, which
\* returns false or falls through to the next; after the last, return true.
stepIsSelectedMinimal(c) ==
  /\ pc # "Fatal"
  /\ calls[c].status = "running" /\ calls[c].fn = "isSelectedMinimal"
  /\ LET call == calls[c]
     IN calls' = [calls EXCEPT ![c] =
                   IF call.at <= 15 /\ rejectsAt(call.track, call.at)
                     THEN [status |-> "returned", fn |-> call.fn,
                           track |-> call.track, ret |-> FALSE]
                     ELSE IF call.at <= 15
                       THEN [call EXCEPT !.at = call.at + 1]
                       ELSE [status |-> "returned", fn |-> call.fn,
                             track |-> call.track, ret |-> TRUE]]
  /\ UNCHANGED <<mSelections, kPIDspecies, nRejectNotPropagatedTracks,
                 nSigmaPIDOffsetTPC, nSigmaPIDOffsetTOF, mHistogramRegistry,
                 counts, limits, pc, out>>

\* The fillQA call of thread c fills its histograms.
stepFillQA(c) ==
  /\ pc # "Fatal"
  /\ calls[c].status = "running" /\ calls[c].fn = "fillQA"
  /\ calls' = [calls EXCEPT ![c] =
                 [status |-> "returned", fn |-> calls[c].fn,
                  track |-> calls[c].track, ret |-> fillQA(calls[c].track)]]
  /\ UNCHANGED <<mSelections, kPIDspecies, nRejectNotPropagatedTracks,
                 nSigmaPIDOffsetTPC, nSigmaPIDOffsetTOF, mHistogramRegistry,
                 counts, limits, pc, out>>

(***************************************************************************)
(* Specification Spec: a host that configures, finalizes with a registry,  *)
(* then evaluates the track table, isSelectedMinimal first and             *)
(* getCutContainer after it, again and again (specification 5:             *)
(* configuration completes before any evaluation).  Any of the 15          *)
(* variables can be registered.                                            *)
(***************************************************************************)
MaxConfigCalls == 2

SelValues(selVar) == IF selVar = kSign THEN {-1, 1} ELSE {4, 10}

\* configuration calls the host has made
ConfigCalls ==
  Len(mSelections) + (IF kPIDspecies = << >> THEN 0 ELSE 1)
                   + (IF nRejectNotPropagatedTracks THEN 1 ELSE 0)

Next ==
  \/ /\ pc = "Unconfigured"
     /\ ConfigCalls < MaxConfigCalls
     /\ \E selVar \in TrackSel : \E selVal \in SelValues(selVar) :
          registerCriterion(selVar, selVal)
  \/ /\ pc = "Unconfigured"
     /\ ConfigCalls < MaxConfigCalls
     /\ kPIDspecies = << >>
     /\ setPIDSpecies(<<"Pion", "Kaon">>)
  \/ /\ pc = "Unconfigured"
     /\ ConfigCalls < MaxConfigCalls
     /\ ~nRejectNotPropagatedTracks
     /\ setRejectNotPropagatedTracks(TRUE)
  \/ /\ pc = "Unconfigured"
     /\ init(Registry)
  \/ /\ pc = "Configured"
     /\ out.op # "isSelectedMinimal"
     /\ evalIsSelectedMinimal("TrackTable")
  \/ /\ pc = "Configured"
     /\ out.op = "isSelectedMinimal"
     /\ evalGetCutContainer("TrackTable")

Spec == Init /\ [][Next]_vars

(***************************************************************************)
(* Specification SpecPID: a host that registers PID (and eta) criteria,    *)
(* configures species and offsets in any order, finalizes, then evaluates  *)
(* the PID track table.                                                    *)
(***************************************************************************)
MaxPIDSelections == 2
MaxSpecies == 2

NextPID ==
  \/ /\ pc = "Unconfigured"
     /\ Len(mSelections) < MaxPIDSelections
     /\ \E selVar \in {kPIDnSigmaMax, kEtaMax} : \E selVal \in {4, 10} :
          registerCriterion(selVar, selVal)
  \/ /\ pc = "Unconfigured"
     /\ Len(kPIDspecies) < MaxSpecies
     /\ \E pid \in Species : setPIDSpecies(<<pid>>)
  \/ /\ pc = "Unconfigured"
     /\ \E offsetTPC \in {0, 2} : \E offsetTOF \in {0, 2} :
          setnSigmaPIDOffset(offsetTPC, offsetTOF)
  \/ /\ pc = "Unconfigured"
     /\ init(Registry)
  \/ /\ pc = "Configured"
     /\ out.op # "isSelectedMinimal"
     /\ evalIsSelectedMinimal("PIDTrackTable")
  \/ /\ pc = "Configured"
     /\ out.op = "isSelectedMinimal"
     /\ evalGetCutContainer("PIDTrackTable")

SpecPID == Init /\ [][NextPID]_vars

(***************************************************************************)
(* Specification SpecOverflow: a host that registers many criteria (one    *)
(* ordinary kind, the PID kind), may configure two species, and finalizes  *)
(* with or without a histogram registry, then evaluates.                   *)
(***************************************************************************)
MaxOverflowSelections == 10

NextOverflow ==
  \/ /\ pc = "Unconfigured"
     /\ Len(mSelections) < MaxOverflowSelections
     /\ \E selVar \in {kpTMin, kPIDnSigmaMax} : registerCriterion(selVar, 4)
  \/ /\ pc = "Unconfigured"
     /\ kPIDspecies = << >>
     /\ setPIDSpecies(<<"Pion", "Kaon">>)
  \/ /\ pc = "Unconfigured"
     /\ \E registry \in {NullRegistry, Registry} : init(registry)
  \/ /\ pc = "Configured"
     /\ out.op # "isSelectedMinimal"
     /\ evalIsSelectedMinimal("TrackTable")
  \/ /\ pc = "Configured"
     /\ out.op = "isSelectedMinimal"
     /\ evalGetCutContainer("TrackTable")

SpecOverflow == Init /\ [][NextOverflow]_vars

(***************************************************************************)
(* Specification SpecLifecycle: a host that keeps calling the setters and  *)
(* init after the first init and between evaluations; none of them is      *)
(* guarded by the state of the instance.                                   *)
(***************************************************************************)
MaxLifecycleSelections == 2
MaxLifecycleSpecies == 2

NextLifecycle ==
  \/ /\ pc = "Unconfigured"
     /\ Len(mSelections) < MaxLifecycleSelections
     /\ \E selVar \in {kPIDnSigmaMax, kDCAxyMax} : registerCriterion(selVar, 4)
  \/ /\ Len(kPIDspecies) < MaxLifecycleSpecies
     /\ \E pid \in Species : setPIDSpecies(<<pid>>)
  \/ \E reject \in BOOLEAN : setRejectNotPropagatedTracks(reject)
  \/ \E offset \in {0, 2} : setnSigmaPIDOffset(offset, offset)
  \/ init(Registry)
  \/ /\ pc = "Configured"
     /\ evalIsSelectedMinimal("TrackTable")
  \/ /\ pc = "Configured"
     /\ evalGetCutContainer("TrackTable")

SpecLifecycle == Init /\ [][NextLifecycle]_vars

(***************************************************************************)
(* Specification SpecUnhandled: a host that also registers criteria whose  *)
(* variable the switch of getCutContainer has no case for, with a kind it  *)
(* names itself or with the kind it looked up beyond the static table.     *)
(***************************************************************************)
MaxUnhandledSelections == 2

NextUnhandled ==
  \/ /\ pc = "Unconfigured"
     /\ Len(mSelections) < MaxUnhandledSelections
     /\ \E selVar \in {kpTMin, kEtaMax} : \E selVal \in {4, 10} :
          registerCriterion(selVar, selVal)
  \/ /\ pc = "Unconfigured"
     /\ Len(mSelections) < MaxUnhandledSelections
     /\ \E selVal \in {4, 10} : \E selType \in StoredKinds :
          setSelection(selVal, kNtrackSelection, selType)
  \/ /\ pc = "Unconfigured"
     /\ init(Registry)
  \/ /\ pc = "Configured"
     /\ out.op # "isSelectedMinimal"
     /\ evalIsSelectedMinimal("TrackTable")
  \/ /\ pc = "Configured"
     /\ out.op = "isSelectedMinimal"
     /\ evalGetCutContainer("TrackTable")

SpecUnhandled == Init /\ [][NextUnhandled]_vars

(***************************************************************************)
(* Specification SpecKinds: a host that registers up to five criteria of   *)
(* five different variables, so that one configuration can hold a criterion *)
(* of every comparison kind.  The static table gives the kinds kEqual,     *)
(* kLowerLimit, kUpperLimit and kAbsUpperLimit; the fifth criterion is of  *)
(* a variable outside the table and has the kind the host names for it     *)
(* (kAbsLowerLimit among them) or the kind it looked up beyond the table.  *)
(***************************************************************************)
MaxKindSelections == 5

NextKinds ==
  \/ /\ pc = "Unconfigured"
     /\ Len(mSelections) < MaxKindSelections
     /\ \E selVar \in {kSign, kpTMin, kpTMax, kEtaMax} :
          /\ getNSelectionsOf(selVar) = 0
          /\ registerCriterion(selVar, IF selVar = kSign THEN 1
                                       ELSE IF selVar = kpTMin THEN 4 ELSE 10)
  \/ /\ pc = "Unconfigured"
     /\ Len(mSelections) < MaxKindSelections
     /\ getNSelectionsOf(kNtrackSelection) = 0
     /\ \E selType \in StoredKinds : setSelection(4, kNtrackSelection, selType)
  \/ /\ pc = "Unconfigured"
     /\ init(Registry)
  \/ /\ pc = "Configured"
     /\ out.op # "isSelectedMinimal"
     /\ evalIsSelectedMinimal("TrackTable")
  \/ /\ pc = "Configured"
     /\ out.op = "isSelectedMinimal"
     /\ evalGetCutContainer("TrackTable")

SpecKinds == Init /\ [][NextKinds]_vars

(***************************************************************************)
(* Specification SpecConcurrent: a host that configures and finalizes,     *)
(* with or without a registry, and whose threads then call the three       *)
(* evaluation functions on their own tracks at the same time, their steps  *)
(* interleaved in any order.                                               *)
(***************************************************************************)
MaxConcurrentSelections == 2

NextConcurrent ==
  \/ /\ pc = "Unconfigured"
     /\ Len(mSelections) < MaxConcurrentSelections
     /\ \E selVar \in {kpTMin, kEtaMax, kPIDnSigmaMax} :
          registerCriterion(selVar, IF selVar = kEtaMax THEN 10 ELSE 4)
  \/ /\ pc = "Unconfigured"
     /\ kPIDspecies = << >>
     /\ setPIDSpecies(<<"Pion", "Kaon">>)
  \/ /\ pc = "Unconfigured"
     /\ \E registry \in {NullRegistry, Registry} : init(registry)
  \/ /\ pc = "Configured"
     /\ \E c \in Callers :
          \E fn \in {"isSelectedMinimal", "getCutContainer", "fillQA"} :
            \E k \in DOMAIN CallerTracks[c] : enterCall(c, fn, CallerTracks[c][k])
  \/ \E c \in Callers : stepGetCutContainer(c)
  \/ \E c \in Callers : stepIsSelectedMinimal(c)
  \/ \E c \in Callers : stepFillQA(c)

SpecConcurrent == Init /\ [][NextConcurrent]_vars

(***************************************************************************)
(* What the claims speak of                                                *)
(***************************************************************************)
\* The catalogue of specification 4.2: the comparison kind of each variable.
Catalogue ==
  << "kEqual", "kLowerLimit", "kUpperLimit", "kAbsUpperLimit",
     "kLowerLimit", "kLowerLimit", "kLowerLimit",
     "kUpperLimit", "kUpperLimit",
     "kLowerLimit", "kLowerLimit",
     "kAbsUpperLimit", "kAbsUpperLimit", "kAbsLowerLimit", "kAbsUpperLimit" >>

\* The variables isSelectedMinimal checks (kpTMin .. kDCAMin), with the
\* members that hold their count and their collapsed threshold.
MinimalKinds == kpTMin .. kDCAMin

CountMember ==
  << "nPtMinSel", "nPtMaxSel", "nEtaSel", "nTPCnMinSel", "nTPCfMinSel",
     "nTPCcMinSel", "nTPCsMaxSel", "nTPCsFracMaxSel", "nITScMinSel",
     "nITScIbMinSel", "nDCAxyMaxSel", "nDCAzMaxSel", "nDCAMinSel" >>

LimitMember ==
  << "pTMin", "pTMax", "etaMax", "nClsMin", "fClsMin", "cTPCMin", "sTPCMax",
     "fracsTPCMax", "nITSclsMin", "nITSclsIbMin", "dcaXYMax", "dcaZMax",
     "dcaMin" >>

\* The observable of a track each variable constrains (kSign .. kDCAzMax)
FieldOf ==
  << "sign", "pt", "pt", "eta", "tpcNClsFound",
     "tpcCrossedRowsOverFindableCls", "tpcNClsCrossedRows", "tpcNClsShared",
     "tpcFractionSharedCls", "itsNCls", "itsNClsInnerBarrel", "dcaXY", "dcaZ" >>

RegisteredAt(selVar) ==
  {i \in DOMAIN mSelections : mSelections[i].selVariable = selVar}

RegisteredValues(selVar) ==
  {mSelections[i].selValue : i \in RegisteredAt(selVar)}

Active(selVar) == RegisteredAt(selVar) # {}

NonPIDCount == Len(mSelections) - Cardinality(RegisteredAt(kPIDnSigmaMax))

\* The track at row i of the table the last evaluation ran on
EvaluatedTrack(i) == Table(out.table)[i]

\* The comparison kinds, as the specification states them
Satisfies(kind, observable, T) ==
  \/ kind = "kEqual" /\ observable = T
  \/ kind = "kLowerLimit" /\ observable >= T
  \/ kind = "kUpperLimit" /\ observable <= T
  \/ kind = "kAbsLowerLimit" /\ (observable >= T \/ -observable >= T)
  \/ kind = "kAbsUpperLimit" /\ observable <= T /\ -observable <= T

\* The same on sqrt(dcaXY^2 + dcaZ^2), decided on the squares
EuclidSatisfies(kind, t, T) ==
  LET q == t.dcaXY * t.dcaXY + t.dcaZ * t.dcaZ
  IN \/ kind = "kEqual" /\ T >= 0 /\ q = T * T
     \/ kind \in {"kLowerLimit", "kAbsLowerLimit"} /\ (T <= 0 \/ q >= T * T)
     \/ kind \in {"kUpperLimit", "kAbsUpperLimit"} /\ T >= 0 /\ q <= T * T

\* Whether track t passes the ordinary criterion sel in the full evaluation
PassesInFull(sel, t) ==
  IF sel.selVariable = kDCAMin
    THEN EuclidSatisfies(sel.selType, t, sel.selValue)
    ELSE Satisfies(sel.selType, t[FieldOf[sel.selVariable + 1]], sel.selValue)

\* The bit of the ordinary criterion at place p of mSelections: the number
\* of ordinary criteria registered before it
OrdinalOf(p) ==
  Cardinality({q \in 1 .. (p - 1) : mSelections[q].selVariable # kPIDnSigmaMax})

OrdinaryAt == {p \in DOMAIN mSelections : mSelections[p].selVariable # kPIDnSigmaMax}

\* Some configured species lies strictly inside the collapsed bound
SomeSpeciesInside(t) ==
  \E p \in DOMAIN kPIDspecies :
    LET x == t.tpcNSigma[kPIDspecies[p]] - nSigmaPIDOffsetTPC
    IN x < limits.nSigmaPIDMax /\ -x < limits.nSigmaPIDMax

NotPropagatedFires(t) ==
  nRejectNotPropagatedTracks /\ (t.dcaXY > 1000 \/ t.dcaXY < -1000)

(***************************************************************************)
(* C1                                                                      *)
(***************************************************************************)
ActiveChecksPass(t) ==
  /\ Active(kpTMin) => t.pt >= limits.pTMin
  /\ Active(kpTMax) => t.pt <= limits.pTMax
  /\ Active(kEtaMax) => (t.eta <= limits.etaMax /\ -t.eta <= limits.etaMax)
  /\ Active(kTPCnClsMin) => t.tpcNClsFound >= limits.nClsMin
  /\ Active(kTPCfClsMin) => t.tpcCrossedRowsOverFindableCls >= limits.fClsMin
  /\ Active(kTPCcRowsMin) => t.tpcNClsCrossedRows >= limits.cTPCMin
  /\ Active(kTPCsClsMax) => t.tpcNClsShared <= limits.sTPCMax
  /\ Active(kTPCfracsClsMax) => t.tpcFractionSharedCls <= limits.fracsTPCMax
  /\ Active(kITSnClsMin) => t.itsNCls >= limits.nITSclsMin
  /\ Active(kITSnClsIbMin) => t.itsNClsInnerBarrel >= limits.nITSclsIbMin
  /\ Active(kDCAxyMax) => (t.dcaXY <= limits.dcaXYMax /\ -t.dcaXY <= limits.dcaXYMax)
  /\ Active(kDCAzMax) => (t.dcaZ <= limits.dcaZMax /\ -t.dcaZ <= limits.dcaZMax)
  /\ Active(kDCAMin) => (t.dcaXY >= limits.dcaMin \/ -t.dcaXY >= limits.dcaMin)
  /\ ~NotPropagatedFires(t)
  /\ Active(kPIDnSigmaMax) => SomeSpeciesInside(t)

\* C1: on a finalized engine isSelectedMinimal(track) is true if and only if
\* every active check passes: each variable with at least one registered
\* criterion holds against its collapsed threshold (>= for the minima, <= for
\* the maxima, on the absolute value for eta, dcaXY, dcaZ and the DCA), the
\* not-propagated rejection does not fire and, when a PID criterion is
\* registered, some species passes.  A variable with no registered criterion
\* never rejects, whatever its observable.
C1_MinimalIffActiveChecksPass ==
  (pc = "Configured" /\ out.op = "isSelectedMinimal") =>
    \A i \in DOMAIN out.result :
      out.result[i] <=> ActiveChecksPass(EvaluatedTrack(i))

\* Two different variables are active, one track is selected, another is
\* rejected, and a track with a wild observable of an inactive variable passes.
C1_Witness ==
  /\ pc = "Configured"
  /\ out.op = "isSelectedMinimal"
  /\ Active(kpTMin) /\ Active(kEtaMax) /\ ~Active(kDCAxyMax)
  /\ \E i \in DOMAIN out.result : out.result[i]
  /\ \E i \in DOMAIN out.result : ~out.result[i]
  /\ \E i \in DOMAIN out.result :
       out.result[i] /\ EvaluatedTrack(i).dcaXY = 2000

(***************************************************************************)
(* C2                                                                      *)
(***************************************************************************)
\* C2 as stated: after init, for each variable kpTMin .. kDCAMin the recorded
\* count is the number of registered criteria of that variable, and the
\* collapsed threshold is the tightest registered one: the maximum for the
\* LowerLimit and AbsLowerLimit variables, the minimum for the UpperLimit
\* and AbsUpperLimit variables.
C2_CollapseKeepsTightest ==
  pc = "Configured" =>
    \A k \in MinimalKinds :
      /\ counts[CountMember[k]] = Cardinality(RegisteredAt(k))
      /\ Active(k) =>
           limits[LimitMember[k]] =
             IF Catalogue[k + 1] \in {"kLowerLimit", "kAbsLowerLimit"}
               THEN Max(RegisteredValues(k))
               ELSE Min(RegisteredValues(k))

\* C2, amended: after init, for each variable kpTMin .. kDCAMin the recorded
\* count is the number of registered criteria of that variable, and the
\* collapsed threshold is the most open registered one: no registered
\* threshold of a LowerLimit or AbsLowerLimit variable lies below it, none of
\* an UpperLimit or AbsUpperLimit variable lies above it, and it is one of
\* the registered thresholds.
C2_CollapseKeepsMostOpen ==
  pc = "Configured" =>
    \A k \in MinimalKinds :
      /\ counts[CountMember[k]] = Cardinality(RegisteredAt(k))
      /\ Active(k) =>
           /\ limits[LimitMember[k]] \in RegisteredValues(k)
           /\ \A T \in RegisteredValues(k) :
                IF Catalogue[k + 1] \in {"kLowerLimit", "kAbsLowerLimit"}
                  THEN limits[LimitMember[k]] <= T
                  ELSE limits[LimitMember[k]] >= T

\* Two LowerLimit criteria 4 and 10 of kpTMin collapse to 4, with count 2.
C2_Witness ==
  /\ pc = "Configured"
  /\ RegisteredValues(kpTMin) = {4, 10}
  /\ limits.pTMin = 4
  /\ counts.nPtMinSel = 2

(***************************************************************************)
(* C3                                                                      *)
(***************************************************************************)
\* Track t satisfies some registered criterion of variable k
SomeCriterionPasses(k, t) ==
  \E T \in RegisteredValues(k) :
    Satisfies(Catalogue[k + 1],
              IF k = kDCAMin THEN t.dcaXY ELSE t[FieldOf[k + 1]], T)

\* C3: isSelectedMinimal checks the most open combination of the criteria: a
\* track that satisfies, for every active variable, at least one registered
\* criterion of it (and passes the PID and not-propagated checks) is
\* selected.
C3_MostOpenCombination ==
  (pc = "Configured" /\ out.op = "isSelectedMinimal") =>
    \A i \in DOMAIN out.result :
      ( /\ \A k \in MinimalKinds :
             Active(k) => SomeCriterionPasses(k, EvaluatedTrack(i))
        /\ ~NotPropagatedFires(EvaluatedTrack(i))
        /\ Active(kPIDnSigmaMax) => SomeSpeciesInside(EvaluatedTrack(i)) )
      => out.result[i]

\* With the LowerLimit criteria 4 and 10 of kpTMin registered, the track of
\* pt 6, which satisfies the first and not the second, is selected.
C3_Witness ==
  /\ pc = "Configured"
  /\ out.op = "isSelectedMinimal"
  /\ RegisteredValues(kpTMin) = {4, 10}
  /\ \E i \in DOMAIN out.result :
       /\ EvaluatedTrack(i).pt = 6
       /\ out.result[i]

(***************************************************************************)
(* C4, C5                                                                  *)
(***************************************************************************)
\* C4: init fails fatally exactly when the number of registered ordinary
\* (non-PID) criteria exceeds the container width in bits: it has failed
\* only with more than 8 * sizeof(CutContainerType) of them, and it has
\* completed only with at most that many; PID criteria are not counted.
C4_FatalExactlyWhenTooMany ==
  /\ pc = "Fatal" => NonPIDCount > 8 * sizeofCutContainerType
  /\ pc = "Configured" => ~(NonPIDCount > 8 * sizeofCutContainerType)

\* C5: whenever init has completed without a fatal error, with or without
\* a histogram registry, the ordinary criteria fit the container, so no
\* evaluation runs on an overflowing configuration.
C5_NoEvaluationOnOverflow ==
  (pc = "Configured" \/ out.op # "none") => NonPIDCount <= ContainerBits

(***************************************************************************)
(* C6                                                                      *)
(***************************************************************************)
\* C6: the comparison kind of each of the 15 variables is the catalogue's:
\* getSelectionType returns it, and every registered criterion carries it.
C6_TableIsCatalogue ==
  /\ \A iSel \in TrackSel : getSelectionType(iSel) = Catalogue[iSel + 1]
  /\ \A i \in DOMAIN mSelections :
       mSelections[i].selType = Catalogue[mSelections[i].selVariable + 1]

(***************************************************************************)
(* C7                                                                      *)
(***************************************************************************)
\* The place of the last criterion at or before place p whose variable the
\* switch of getCutContainer has a case for (0 if there is none): the
\* observable handed to checkSelectionSetBit at place p is the one computed
\* there
LastHandledAt(p) ==
  LET handled == {q \in 1 .. p :
                    mSelections[q].selVariable \in TrackSel \ {kPIDnSigmaMax}}
  IN IF handled = {} THEN 0 ELSE Max(handled)

\* Whether the observable handed to checkSelectionSetBit for the criterion
\* at place p satisfies the comparison kind of that criterion against its
\* threshold
ComparisonHolds(p, t) ==
  LET sel == mSelections[p]
      q == LastHandledAt(p)
  IN IF q = 0 THEN Satisfies(sel.selType, 0, sel.selValue)
     ELSE IF mSelections[q].selVariable = kDCAMin
       THEN EuclidSatisfies(sel.selType, t, sel.selValue)
       ELSE Satisfies(sel.selType, t[FieldOf[mSelections[q].selVariable + 1]],
                      sel.selValue)

\* C7: the bit of an ordinary criterion in the container getCutContainer
\* returns is set if and only if the observable handed to the test satisfies
\* the criterion's comparison kind against its threshold T: == T for Equal,
\* >= T for LowerLimit, <= T for UpperLimit, |.| >= T for AbsLowerLimit,
\* |.| <= T for AbsUpperLimit (for every criterion whose bit the container
\* has).  A value on the bound passes, the next value beyond it fails.
C7_BitIffComparisonHolds ==
  (pc = "Configured" /\ out.op = "getCutContainer") =>
    \A i \in DOMAIN out.result : \A p \in OrdinaryAt :
      OrdinalOf(p) < ContainerBits =>
        (Bit(out.result[i][1], OrdinalOf(p)) = 1 <=> ComparisonHolds(p, EvaluatedTrack(i)))

\* The row of the evaluated table that differs from BaseTrack (sign 1, pt 6,
\* eta 6) in the given field only, with the given value there, has the
\* given ordinary container
RowGives(field, value, container) ==
  \E i \in DOMAIN out.result :
    /\ EvaluatedTrack(i) = [BaseTrack EXCEPT ![field] = value]
    /\ out.result[i][1] = container

\* One criterion of every kind: sign == 1 (bit 0), pt >= 4 (bit 1),
\* pt <= 10 (bit 2), |eta| <= 10 (bit 3) and, on the same observable eta, a
\* criterion of kind kAbsLowerLimit with threshold 4 (bit 4).  Every bit is
\* set on its bound (and on the negated bound for the two absolute kinds)
\* and clear for the next value beyond it.
C7_Witness ==
  /\ pc = "Configured"
  /\ out.op = "getCutContainer"
  /\ [p \in DOMAIN mSelections |-> <<mSelections[p].selType, mSelections[p].selValue>>]
       = << <<"kEqual", 1>>, <<"kLowerLimit", 4>>, <<"kUpperLimit", 10>>,
            <<"kAbsUpperLimit", 10>>, <<"kAbsLowerLimit", 4>> >>
  /\ [p \in DOMAIN mSelections |-> mSelections[p].selVariable]
       = <<kSign, kpTMin, kpTMax, kEtaMax, kNtrackSelection>>
  /\ RowGives("sign", 1, 31) /\ RowGives("sign", -1, 30)
  /\ RowGives("pt", 4, 31) /\ RowGives("pt", 2, 29)
  /\ RowGives("pt", 10, 31) /\ RowGives("pt", 12, 27)
  /\ RowGives("eta", 10, 31) /\ RowGives("eta", -10, 31)
  /\ RowGives("eta", 12, 23) /\ RowGives("eta", -12, 23)
  /\ RowGives("eta", 4, 31) /\ RowGives("eta", -4, 31)
  /\ RowGives("eta", 2, 15)

(***************************************************************************)
(* C8                                                                      *)
(***************************************************************************)
RECURSIVE SumOfPassing(_, _)
\* the sum of 2^OrdinalOf(p) over the ordinary criteria at places 1 .. n
\* that track t passes (over the bits the container has)
SumOfPassing(t, n) ==
  IF n = 0 THEN 0
  ELSE SumOfPassing(t, n - 1)
       + (IF /\ n \in OrdinaryAt
             /\ OrdinalOf(n) < ContainerBits
             /\ PassesInFull(mSelections[n], t)
            THEN Pow2(OrdinalOf(n)) ELSE 0)

\* C8: in the ordinary container of getCutContainer the i-th registered
\* ordinary criterion (counting from 0, PID criteria not counted, failed
\* criteria counted) owns bit i: the container is exactly the sum of 2^i over
\* the ordinary criteria the track passes, so every higher bit is 0, and the
\* place of a criterion is the same for every track and every evaluation.
C8_BitIndexIsRegistrationOrder ==
  (pc = "Configured" /\ out.op = "getCutContainer") =>
    \A i \in DOMAIN out.result :
      out.result[i][1] = SumOfPassing(EvaluatedTrack(i), Len(mSelections))

\* A PID criterion registered before an ordinary one: the ordinary one owns
\* bit 0; and a failed first criterion before a passed second one: only bit 1.
C8_Witness ==
  /\ pc = "Configured"
  /\ out.op = "getCutContainer"
  /\ \/ /\ Len(mSelections) = 2
        /\ mSelections[1].selVariable = kPIDnSigmaMax
        /\ mSelections[2].selVariable = kpTMax
        /\ \E i \in DOMAIN out.result : out.result[i][1] = 1
        /\ \E i \in DOMAIN out.result : out.result[i][1] = 0
     \/ /\ Len(mSelections) = 2
        /\ mSelections[1].selVariable = kpTMin
        /\ mSelections[2].selVariable = kpTMax
        /\ \E i \in DOMAIN out.result : out.result[i][1] = 2
        /\ \E i \in DOMAIN out.result : out.result[i][1] = 3

(***************************************************************************)
(* C9                                                                      *)
(***************************************************************************)
\* The pairs of rows of a table that differ at most in the given field,
\* as a sequence
PairsDifferingOnlyIn(rows, field) ==
  LET n == Len(rows)
      allPairs == [k \in 1 .. (n * n) |-> <<((k - 1) \div n) + 1, ((k - 1) % n) + 1>>]
      Alike(pr) == \A f \in DOMAIN BaseTrack :
                     f # field => rows[pr[1]][f] = rows[pr[2]][f]
  IN SelectSeq(allPairs, Alike)

TofPairs ==
  [TrackTable    |-> PairsDifferingOnlyIn(TrackTable, "tofNSigma"),
   PIDTrackTable |-> PairsDifferingOnlyIn(PIDTrackTable, "tofNSigma")]

DcaZPairs ==
  [TrackTable    |-> PairsDifferingOnlyIn(TrackTable, "dcaZ"),
   PIDTrackTable |-> PairsDifferingOnlyIn(PIDTrackTable, "dcaZ")]

\* C9: with a PID criterion registered, the PID part of isSelectedMinimal
\* passes if and only if for at least one configured species the TPC n-sigma
\* minus the TPC offset lies within the collapsed bound in absolute value
\* (|x| <= nSigmaPIDMax, the bound included), whatever the other species
\* give; the TOF n-sigma and the TOF offset play no part.  The rows of the
\* PID table keep every ordinary observable inside, so that the eta check is
\* the only other check that can reject.
C9_PIDPassesIffSomeSpeciesInside ==
  (pc = "Configured" /\ out.op = "isSelectedMinimal" /\ Active(kPIDnSigmaMax)) =>
    /\ \A i \in DOMAIN out.result :
         out.result[i] <=>
           /\ Active(kEtaMax) => Satisfies("kAbsUpperLimit", EvaluatedTrack(i).eta, limits.etaMax)
           /\ \E p \in DOMAIN kPIDspecies :
                LET x == EvaluatedTrack(i).tpcNSigma[kPIDspecies[p]] - nSigmaPIDOffsetTPC
                IN x <= limits.nSigmaPIDMax /\ -x <= limits.nSigmaPIDMax
    /\ \A k \in DOMAIN TofPairs[out.table] :
         LET pr == TofPairs[out.table][k] IN out.result[pr[1]] = out.result[pr[2]]

(***************************************************************************)
(* C10                                                                     *)
(***************************************************************************)
\* C10: for the same track the value tested against DCAMin is |dcaXY| alone
\* in isSelectedMinimal (with no kDCAzMax criterion its result does not depend
\* on dcaZ) and sqrt(dcaXY^2 + dcaZ^2) in getCutContainer (the bit of a
\* kDCAMin criterion is its comparison on that value).
C10_DcaXYInMinimalEuclidInFull ==
  /\ (pc = "Configured" /\ out.op = "isSelectedMinimal") =>
       /\ ~Active(kDCAzMax) =>
            \A k \in DOMAIN DcaZPairs[out.table] :
              LET pr == DcaZPairs[out.table][k]
              IN out.result[pr[1]] = out.result[pr[2]]
       /\ (Active(kDCAMin) /\ Len(mSelections) = Cardinality(RegisteredAt(kDCAMin))) =>
            \A i \in DOMAIN out.result :
              out.result[i] <=>
                /\ Satisfies("kAbsLowerLimit", EvaluatedTrack(i).dcaXY, limits.dcaMin)
                /\ ~NotPropagatedFires(EvaluatedTrack(i))
  /\ (pc = "Configured" /\ out.op = "getCutContainer") =>
       \A i \in DOMAIN out.result : \A p \in RegisteredAt(kDCAMin) :
         OrdinalOf(p) < ContainerBits =>
           (Bit(out.result[i][1], OrdinalOf(p)) = 1
              <=> EuclidSatisfies(mSelections[p].selType, EvaluatedTrack(i),
                                  mSelections[p].selValue))

\* The track dcaXY = 2, dcaZ = 4 under the single criterion (kDCAMin, 4): the
\* minimal path rejects it (|dcaXY| = 2 < 4) while the full path tests
\* sqrt(20) > 4, which the bit shows (an AbsUpperLimit test of 2 would pass).
C10_Witness ==
  /\ pc = "Configured"
  /\ out.op = "getCutContainer"
  /\ Len(mSelections) = 1
  /\ mSelections[1].selVariable = kDCAMin
  /\ mSelections[1].selValue = 4
  /\ \E i \in DOMAIN out.result :
       /\ EvaluatedTrack(i).dcaXY = 2
       /\ EvaluatedTrack(i).dcaZ = 4
       /\ ~isSelectedMinimal(EvaluatedTrack(i))
       /\ Bit(out.result[i][1], 0) # (IF Satisfies(mSelections[1].selType, 2, 4) THEN 1 ELSE 0)

(***************************************************************************)
(* C11                                                                     *)
(***************************************************************************)
\* C11: with reject-not-propagated enabled, isSelectedMinimal is false for
\* every track whose DCA (dcaXY, the value the minimal path uses) exceeds 1000
\* in absolute value, whatever else is configured, also with no criterion at
\* all; with the flag disabled such a track is selected exactly when the
\* configured criteria accept it, so the sentinel alone rejects nothing.
C11_NotPropagatedRejects ==
  (pc = "Configured" /\ out.op = "isSelectedMinimal") =>
    \A i \in DOMAIN out.result :
      LET t == EvaluatedTrack(i)
      IN (t.dcaXY > 1000 \/ t.dcaXY < -1000) =>
           IF nRejectNotPropagatedTracks
             THEN ~out.result[i]
             ELSE out.result[i] <=> ActiveChecksPass(t)

\* The flag is set and nothing else is configured: dcaXY = 2000 and -2000 are
\* rejected, dcaXY = 1000 (on the sentinel) is selected.
C11_Witness ==
  /\ pc = "Configured"
  /\ out.op = "isSelectedMinimal"
  /\ nRejectNotPropagatedTracks
  /\ mSelections = << >>
  /\ \E i \in DOMAIN out.result : EvaluatedTrack(i).dcaXY = 2000 /\ ~out.result[i]
  /\ \E i \in DOMAIN out.result : EvaluatedTrack(i).dcaXY = -2000 /\ ~out.result[i]
  /\ \E i \in DOMAIN out.result : EvaluatedTrack(i).dcaXY = 1000 /\ out.result[i]

(***************************************************************************)
(* C12                                                                     *)
(***************************************************************************)
PIDAt == {p \in DOMAIN mSelections : mSelections[p].selVariable = kPIDnSigmaMax}

\* The PID criterion with c PID criteria registered before it
PIDCriterion(c) ==
  mSelections[CHOOSE p \in PIDAt :
                Cardinality({q \in PIDAt : q < p}) = c]

\* The number of PID bits one getCutContainer call appends
PIDBitCount == 2 * Len(kPIDspecies) * Cardinality(PIDAt)

\* Whether the PID test that owns position pos (criteria in registration
\* order, within a criterion the species in configuration order, within a
\* species TPC-only then combined) passes for track t
PIDTestPasses(t, pos) ==
  LET perCriterion == 2 * Len(kPIDspecies)
      T == PIDCriterion(pos \div perCriterion).selValue
      pid == kPIDspecies[((pos % perCriterion) \div 2) + 1]
      x == t.tpcNSigma[pid] - nSigmaPIDOffsetTPC
      y == t.tofNSigma[pid] - nSigmaPIDOffsetTOF
  IN IF pos % 2 = 0
       THEN x <= T /\ -x <= T
       ELSE T >= 0 /\ x * x + y * y <= T * T

\* The test results of positions pos, pos + 1, ... appended in that order
RECURSIVE AppendedFrom(_, _, _)
AppendedFrom(t, pos, container) ==
  IF pos >= PIDBitCount THEN container
  ELSE AppendedFrom(t, pos + 1, appendPIDBit(container, PIDTestPasses(t, pos)))

\* Whether the container still holds the result appended at position pos once
\* all PIDBitCount results are appended, and that bit
PIDBitKept(pos) == PIDBitCount - pos < ContainerBits

PIDBit(container, pos) == Bit(container, PIDBitCount - pos)

\* C12: for every PID criterion getCutContainer walks the configured species
\* in configuration order and appends two PID bits per species, the TPC-only
\* test (TPC n-sigma minus TPC offset) first and the combined test (quadrature
\* sum of the offset-corrected TPC and TOF n-sigma) second: the PID container
\* is what appending these results, in this order and nothing else, to the
\* empty container gives, and the ordinary container holds the ordinary tests
\* only.
C12_TwoPIDBitsPerSpeciesInOrder ==
  (pc = "Configured" /\ out.op = "getCutContainer") =>
    \A i \in DOMAIN out.result :
      /\ out.result[i][2] = AppendedFrom(EvaluatedTrack(i), 0, 0)
      /\ out.result[i][1] = SumOfPassing(EvaluatedTrack(i), Len(mSelections))

\* Species Kaon then Pion, an ordinary criterion before the PID criterion
\* (threshold 4), no offsets.  For the track with Pion 4, Kaon 12 and TOF
\* value 12 the four results appended are fail, fail (Kaon), pass, fail
\* (Pion); with TOF value 0 they are fail, fail, pass, pass.  The ordinary
\* container holds the bit of the ordinary criterion in both.
C12_Witness ==
  /\ pc = "Configured"
  /\ out.op = "getCutContainer"
  /\ kPIDspecies = <<"Kaon", "Pion">>
  /\ nSigmaPIDOffsetTPC = 0 /\ nSigmaPIDOffsetTOF = 0
  /\ Len(mSelections) = 2
  /\ mSelections[1].selVariable = kEtaMax
  /\ mSelections[2].selVariable = kPIDnSigmaMax /\ mSelections[2].selValue = 4
  /\ \E i \in DOMAIN out.result :
       /\ EvaluatedTrack(i).tpcNSigma["Pion"] = 4
       /\ EvaluatedTrack(i).tpcNSigma["Kaon"] = 12
       /\ EvaluatedTrack(i).tofNSigma["Pion"] = 12
       /\ out.result[i][1] = 1
       /\ out.result[i][2] =
            appendPIDBit(appendPIDBit(appendPIDBit(appendPIDBit(0,
              FALSE), FALSE), TRUE), FALSE)
  /\ \E i \in DOMAIN out.result :
       /\ EvaluatedTrack(i).tpcNSigma["Pion"] = 4
       /\ EvaluatedTrack(i).tpcNSigma["Kaon"] = 12
       /\ EvaluatedTrack(i).tofNSigma["Pion"] = 0
       /\ out.result[i][1] = 1
       /\ out.result[i][2] =
            appendPIDBit(appendPIDBit(appendPIDBit(appendPIDBit(0,
              FALSE), FALSE), TRUE), TRUE)

(***************************************************************************)
(* C13                                                                     *)
(***************************************************************************)
\* C13: once an evaluation has run on the finalized engine, no call of the
\* public interface (setPIDSpecies, setRejectNotPropagatedTracks,
\* setnSigmaPIDOffset, a repeated init) changes the criteria, the counts, the
\* collapsed thresholds, the species list, the offsets or the reject flag;
\* the same evaluation run again gives the same results; and the engine does
\* not return to Unconfigured.
C13_NoMutationAfterEvaluation ==
  [][out.op # "none" =>
       /\ <<mSelections, counts, limits, kPIDspecies, nSigmaPIDOffsetTPC,
            nSigmaPIDOffsetTOF, nRejectNotPropagatedTracks>>'
            = <<mSelections, counts, limits, kPIDspecies, nSigmaPIDOffsetTPC,
                nSigmaPIDOffsetTOF, nRejectNotPropagatedTracks>>
       /\ (out'.op = out.op => out' = out)
       /\ pc' # "Unconfigured"]_vars

(***************************************************************************)
(* C14                                                                     *)
(***************************************************************************)
\* What a call of the evaluation function op on track t alone returns
RunAlone(op, t) ==
  CASE op = "isSelectedMinimal" -> isSelectedMinimal(t)
    [] op = "getCutContainer" -> getCutContainer(t)
    [] op = "fillQA" -> fillQA(t)

\* C14: on a finalized engine no step of an isSelectedMinimal,
\* getCutContainer or fillQA call changes the criteria, the counts, the
\* collapsed thresholds, the species list, the offsets, the reject flag (or
\* the registry pointer), and every call, however its steps were interleaved
\* with the steps of the calls of other threads on other tracks, returns
\* what the call on its track alone returns.
C14_EvaluationWritesNoConfiguration ==
  /\ [](\A c \in Callers :
          calls[c].status = "returned"
            => calls[c].ret = RunAlone(calls[c].fn, calls[c].track))
  /\ [][pc = "Configured" => (config' = config /\ pc' = pc)]_vars

\* Two criteria and both species configured; the getCutContainer calls of
\* the two threads, on different tracks, are both between their first and
\* their second loop iteration, each with the bit counter of its own first
\* iteration.
C14_Witness ==
  /\ pc = "Configured"
  /\ Len(mSelections) = 2 /\ mSelections[1].selVariable = kpTMin
  /\ \A c \in Callers :
       /\ calls[c].status = "running"
       /\ calls[c].fn = "getCutContainer"
       /\ calls[c].at = 2
       /\ calls[c].loc.counter = 1
  /\ calls["A"].track.pt = 2 /\ calls["A"].loc.output = 0
  /\ calls["B"].track.pt = 6 /\ calls["B"].loc.output = 1

(***************************************************************************)
(* C15                                                                     *)
(***************************************************************************)
\* C15: in getCutContainer a criterion whose variable the switch does not
\* handle is a no-op: no bit is set on its behalf (its place in the ordinary
\* container stays 0 for every track), so nothing about it depends on the
\* observable of a criterion evaluated before it.
C15_UnhandledKindIsNoOp ==
  (pc = "Configured" /\ out.op = "getCutContainer") =>
    \A i \in DOMAIN out.result : \A p \in DOMAIN mSelections :
      (mSelections[p].selVariable \notin TrackSel /\ OrdinalOf(p) < ContainerBits)
        => Bit(out.result[i][1], OrdinalOf(p)) = 0

(***************************************************************************)
(* C16                                                                     *)
(***************************************************************************)
SignPairs ==
  [TrackTable    |-> PairsDifferingOnlyIn(TrackTable, "sign"),
   PIDTrackTable |-> PairsDifferingOnlyIn(PIDTrackTable, "sign")]

\* C16: isSelectedMinimal gives two tracks that differ only in sign the same
\* result under every configuration, also with Sign (Equal) criteria
\* registered; getCutContainer does test the sign: the bit of a Sign
\* criterion is set exactly when the track's sign equals its value.
C16_MinimalIgnoresSign ==
  /\ (pc = "Configured" /\ out.op = "isSelectedMinimal") =>
       \A k \in DOMAIN SignPairs[out.table] :
         LET pr == SignPairs[out.table][k]
         IN out.result[pr[1]] = out.result[pr[2]]
  /\ (pc = "Configured" /\ out.op = "getCutContainer") =>
       \A i \in DOMAIN out.result : \A p \in RegisteredAt(kSign) :
         OrdinalOf(p) < ContainerBits =>
           (Bit(out.result[i][1], OrdinalOf(p)) = 1
              <=> EvaluatedTrack(i).sign = mSelections[p].selValue)

\* The only criterion is Sign = 1: the tracks with sign 1 and sign -1 are
\* both selected by isSelectedMinimal, and getCutContainer sets the bit for
\* the first and not for the second.
C16_Witness ==
  /\ pc = "Configured"
  /\ out.op = "getCutContainer"
  /\ Len(mSelections) = 1
  /\ mSelections[1].selVariable = kSign /\ mSelections[1].selValue = 1
  /\ \E i, j \in DOMAIN out.result :
       /\ EvaluatedTrack(i).sign = 1 /\ EvaluatedTrack(j).sign = -1
       /\ isSelectedMinimal(EvaluatedTrack(i)) /\ isSelectedMinimal(EvaluatedTrack(j))
       /\ out.result[i][1] = 1 /\ out.result[j][1] = 0

(***************************************************************************)
(* C17                                                                     *)
(***************************************************************************)
\* C17: whenever getCutContainer sets the TPC-only PID bit of some PID
\* criterion and species for a track (|TPC n-sigma - TPC offset| <= the
\* criterion's threshold, the value on the threshold included), the PID
\* part of isSelectedMinimal passes for that track.
C17_MinimalPIDAcceptsWhatFullAccepts ==
  (pc = "Configured" /\ out.op = "getCutContainer" /\ Active(kPIDnSigmaMax)) =>
    \A i \in DOMAIN out.result :
      (\E pos \in 0 .. (PIDBitCount - 1) :
         pos % 2 = 0 /\ PIDBitKept(pos) /\ PIDBit(out.result[i][2], pos) = 1)
        => isFulfilledPID(EvaluatedTrack(i))

(***************************************************************************)
(* C18                                                                     *)
(***************************************************************************)
\* C18: after an init that did not fail, the number of PID bits one
\* getCutContainer call appends, 2 x (configured species) x (registered PID
\* criteria), is at most the container width in bits, and every PID test
\* that passes has its bit in the PID container.
C18_PIDBitsFitTheContainer ==
  (pc = "Configured") =>
    /\ PIDBitCount <= ContainerBits
    /\ out.op = "getCutContainer" =>
         \A i \in DOMAIN out.result : \A pos \in 0 .. (PIDBitCount - 1) :
           PIDTestPasses(EvaluatedTrack(i), pos)
             => (PIDBitKept(pos) /\ PIDBit(out.result[i][2], pos) = 1)

(***************************************************************************)
(* C19                                                                     *)
(***************************************************************************)
\* C19: with at least one PID criterion registered and no species
\* configured, isSelectedMinimal is false for every track, whatever its
\* observables, and the PID container of getCutContainer is 0.
C19_NoSpeciesRejectsAll ==
  (pc = "Configured" /\ Active(kPIDnSigmaMax) /\ kPIDspecies = << >>) =>
    /\ out.op = "isSelectedMinimal" => \A i \in DOMAIN out.result : ~out.result[i]
    /\ out.op = "getCutContainer" => \A i \in DOMAIN out.result : out.result[i][2] = 0

\* A PID criterion (threshold 10) is the only criterion and no species is
\* configured: every row of the table is rejected, also those whose n-sigma
\* values are well inside.
C19_Witness ==
  /\ pc = "Configured"
  /\ out.op = "isSelectedMinimal"
  /\ kPIDspecies = << >>
  /\ Len(mSelections) = 1
  /\ mSelections[1].selVariable = kPIDnSigmaMax /\ mSelections[1].selValue = 10
  /\ \A i \in DOMAIN out.result : ~out.result[i]
  /\ \E i \in DOMAIN out.result :
       \A pid \in Species : EvaluatedTrack(i).tpcNSigma[pid] = 2
  /\ \A i \in DOMAIN out.result : getCutContainer(EvaluatedTrack(i))[2] = 0

============================================================================
